---- MODULE Spec2Model ----
(***************************************************************************)
(* Model of eslint-plugin-better-max-params: the rule better-max-params    *)
(* (create / checkFunction / buildError / upperCaseFirst and its option    *)
(* schema) and the helpers of lib/rules/utils/ast-utils.js                 *)
(* (getFunctionNameWithKind, getFunctionHeadLoc, getOpeningParenOfParams,  *)
(* getStaticPropertyName, getStaticStringValue).                           *)
(*                                                                         *)
(* JavaScript strings are sequences of one-character strings, so that      *)
(* joining, quoting and upper-casing are computed character by character.  *)
(* A value that may be null is a record [some, v].                         *)
(***************************************************************************)
EXTENDS Integers, Sequences, FiniteSets, TLC

VARIABLES
  options,              \* context.options[0]: the configuration object, or NoOption
  pc,                   \* position of the run: "validate", "create", "walk", "rejected", "label", "loc"
  schemaOk,             \* result of the host's schema validation of options
  funcNumParams,        \* closure variable of create()
  constructorNumParams, \* closure variable of create()
  sourceCode,           \* context.sourceCode, read by create(): the tokens of the file
  program,              \* the function-like nodes of the tree, one per source line
  visited,              \* indices of program already handed to checkFunction
  reports,              \* sequence of records passed to context.report
  subject,              \* node handed to the labeler / location extractor
  labelOut,             \* results of getFunctionNameWithKind(subject), one per call
  locOut,               \* results of getFunctionHeadLoc(subject, sourceCode), one per call
  parenOut              \* results of getOpeningParenOfParams(subject, sourceCode), one per call

vars == <<options, pc, schemaOk, funcNumParams, constructorNumParams,
          sourceCode, program, visited, reports, subject, labelOut, locOut, parenOut>>

----------------------------------------------------------------------------
(* Strings *)

S_static      == <<"s","t","a","t","i","c">>
S_private     == <<"p","r","i","v","a","t","e">>
S_async       == <<"a","s","y","n","c">>
S_generator   == <<"g","e","n","e","r","a","t","o","r">>
S_constructor == <<"c","o","n","s","t","r","u","c","t","o","r">>
S_getter      == <<"g","e","t","t","e","r">>
S_setter      == <<"s","e","t","t","e","r">>
S_method      == <<"m","e","t","h","o","d">>
S_arrow       == <<"a","r","r","o","w">>
S_function    == <<"f","u","n","c","t","i","o","n">>
S_null        == <<"n","u","l","l">>
S_foo         == <<"f","o","o">>
S_bar         == <<"b","a","r">>
S_hashfoo     == <<"#","f","o","o">>

Some(x) == [some |-> TRUE, v |-> x]
None    == [some |-> FALSE, v |-> <<>>]

\* Array.prototype.join(sep) on an array of strings
RECURSIVE Join(_, _)
Join(words, sep) ==
  IF Len(words) = 0 THEN <<>>
  ELSE IF Len(words) = 1 THEN words[1]
  ELSE words[1] \o sep \o Join(Tail(words), sep)

\* String(n) for a non-negative integer n
Digit(d) == <<"0","1","2","3","4","5","6","7","8","9">>[d + 1]

RECURSIVE NumberToString(_)
NumberToString(n) ==
  IF n < 10 THEN <<Digit(n)>>
  ELSE NumberToString(n \div 10) \o <<Digit(n % 10)>>

----------------------------------------------------------------------------
(* Syntax nodes *)

MemberTypes == {"Property", "MethodDefinition", "PropertyDefinition"}

\* A key node of a member-like parent.  vkind is the type of node.value for a
\* Literal ("null" when node.value === null); str is the string value, the
\* regex pattern, the bigint digits or the cooked text of the only quasi;
\* regex / bigint say whether the literal carries node.regex / node.bigint.
KeyNode(type, name, vkind, str, num, regex, flags, bigint, nexpr, nquasi) ==
  [type |-> type, name |-> name, vkind |-> vkind, str |-> str, num |-> num,
   regex |-> regex, flags |-> flags, bigint |-> bigint, nexpr |-> nexpr,
   nquasi |-> nquasi]

IdentKey(name)   == KeyNode("Identifier", name, "none", <<>>, 0, FALSE, <<>>, FALSE, 0, 0)
PrivateKey(name) == KeyNode("PrivateIdentifier", name, "none", <<>>, 0, FALSE, <<>>, FALSE, 0, 0)
StringKey(s)     == KeyNode("Literal", <<>>, "string", s, 0, FALSE, <<>>, FALSE, 0, 0)
NumberKey(n)     == KeyNode("Literal", <<>>, "number", <<>>, n, FALSE, <<>>, FALSE, 0, 0)
NullKey          == KeyNode("Literal", <<>>, "null", <<>>, 0, FALSE, <<>>, FALSE, 0, 0)
\* /a/u where the environment cannot represent the regex: value null, regex {pattern, flags}
RegexKey         == KeyNode("Literal", <<>>, "null", <<"a">>, 0, TRUE, <<"u">>, FALSE, 0, 0)
\* 7n where the environment cannot represent the bigint: value null, bigint "7"
BigintKey        == KeyNode("Literal", <<>>, "null", <<"7">>, 0, FALSE, <<>>, TRUE, 0, 0)
\* `foo` : no expressions, one quasi
TemplateKey(s)   == KeyNode("TemplateLiteral", <<>>, "none", s, 0, FALSE, <<>>, FALSE, 0, 1)
\* `${b}` : one expression, two quasis
DynTemplateKey   == KeyNode("TemplateLiteral", <<>>, "none", <<>>, 0, FALSE, <<>>, FALSE, 1, 2)
\* "a" + "b"
BinaryKey        == KeyNode("BinaryExpression", <<>>, "none", <<>>, 0, FALSE, <<>>, FALSE, 0, 0)

NoKey == KeyNode("none", <<>>, "none", <<>>, 0, FALSE, <<>>, FALSE, 0, 0)

\* node.parent
Parent(type, kind, static, computed, key) ==
  [type |-> type, kind |-> kind, static |-> static, computed |-> computed, key |-> key]

\* a parent that is no member-like node (VariableDeclarator, Program, ExpressionStatement, CallExpression ...)
OtherParent == Parent("Other", "none", FALSE, FALSE, NoKey)

----------------------------------------------------------------------------
(* ast-utils.js: static names *)

isNullLiteral(node) ==
  node.type = "Literal" /\ node.vkind = "null" /\ ~node.regex /\ ~node.bigint

getStaticStringValue(node) ==
  CASE node.type = "Literal" ->
         IF node.vkind = "null"
         THEN IF isNullLiteral(node) THEN Some(S_null)
              ELSE IF node.regex THEN Some(<<"/">> \o node.str \o <<"/">> \o node.flags)
              ELSE IF node.bigint THEN Some(node.str)
              ELSE None
         ELSE IF node.vkind = "number" THEN Some(NumberToString(node.num))
         ELSE Some(node.str)
    [] node.type = "TemplateLiteral" ->
         IF node.nexpr = 0 /\ node.nquasi = 1 THEN Some(node.str) ELSE None
    [] OTHER -> None

\* node is a Property, PropertyDefinition or MethodDefinition here: the
\* function's parent is the only node the labeler passes
getStaticPropertyName(node) ==
  IF node.type \in MemberTypes
  THEN LET prop == node.key IN
       IF prop.type = "Identifier" /\ ~node.computed
       THEN Some(prop.name)
       ELSE getStaticStringValue(prop)
  ELSE None

----------------------------------------------------------------------------
(* ast-utils.js: getFunctionNameWithKind *)

Quoted(s) == <<"'">> \o s \o <<"'">>

isPrivateKey(parent) == ~parent.computed /\ parent.key.type = "PrivateIdentifier"

\* a labeler that pushes "async" and "generator" before "static" and "private"
modifierWords_asyncFirst(node) ==
  LET parent == node.parent IN
  (IF node.async THEN <<S_async>> ELSE <<>>)
  \o (IF node.generator THEN <<S_generator>> ELSE <<>>)
  \o (IF parent.type \in {"MethodDefinition", "PropertyDefinition"}
      THEN (IF parent.static THEN <<S_static>> ELSE <<>>)
           \o (IF isPrivateKey(parent) THEN <<S_private>> ELSE <<>>)
      ELSE <<>>)

\* lines 348-363: the words pushed before the kind word
modifierWords(node) ==
  LET parent == node.parent IN
  (IF parent.type \in {"MethodDefinition", "PropertyDefinition"}
   THEN (IF parent.static THEN <<S_static>> ELSE <<>>)
        \o (IF isPrivateKey(parent) THEN <<S_private>> ELSE <<>>)
   ELSE <<>>)
  \o (IF node.async THEN <<S_async>> ELSE <<>>)
  \o (IF node.generator THEN <<S_generator>> ELSE <<>>)

\* a labeler that recognises a constructor by the text of its key
isConstructorMember_byKeyName(node) ==
  node.parent.type \in MemberTypes
  /\ getStaticPropertyName(node.parent) = Some(S_constructor)

\* line 365-368: the early return
isConstructorMember(node) ==
  node.parent.type \in {"Property", "MethodDefinition"} /\ node.parent.kind = "constructor"

\* a labeler that forgets the word "arrow"
kindWords_noArrow(node) ==
  LET parent == node.parent IN
  IF parent.type \in {"Property", "MethodDefinition"}
  THEN IF parent.kind = "get" THEN <<S_getter>>
       ELSE IF parent.kind = "set" THEN <<S_setter>>
       ELSE <<S_method>>
  ELSE IF parent.type = "PropertyDefinition" THEN <<S_method>>
  ELSE <<S_function>>

\* lines 365-383: the kind word(s)
kindWords(node) ==
  LET parent == node.parent IN
  IF parent.type \in {"Property", "MethodDefinition"}
  THEN IF parent.kind = "get" THEN <<S_getter>>
       ELSE IF parent.kind = "set" THEN <<S_setter>>
       ELSE <<S_method>>
  ELSE IF parent.type = "PropertyDefinition" THEN <<S_method>>
  ELSE (IF node.type = "ArrowFunctionExpression" THEN <<S_arrow>> ELSE <<>>)
       \o <<S_function>>

\* a labeler that prefers the function's own name to the key
nameWords_idFirst(node) ==
  LET parent == node.parent IN
  IF node.id.some THEN <<Quoted(node.id.v)>>
  ELSE IF parent.type \in MemberTypes
  THEN IF isPrivateKey(parent)
       THEN << <<"#">> \o parent.key.name >>
       ELSE LET name == getStaticPropertyName(parent) IN
            IF name.some THEN <<Quoted(name.v)>> ELSE <<>>
  ELSE <<>>

\* lines 385-399: the name suffix
nameWords(node) ==
  LET parent == node.parent IN
  IF parent.type \in MemberTypes
  THEN IF isPrivateKey(parent)
       THEN << <<"#">> \o parent.key.name >>
       ELSE LET name == getStaticPropertyName(parent) IN
            IF name.some THEN <<Quoted(name.v)>>
            ELSE IF node.id.some THEN <<Quoted(node.id.v)>>
            ELSE <<>>
  ELSE IF node.id.some THEN <<Quoted(node.id.v)>>
  ELSE <<>>

getFunctionNameWithKind(node) ==
  IF isConstructorMember(node)
  THEN S_constructor
  ELSE Join(modifierWords(node) \o kindWords(node) \o nameWords(node), <<" ">>)

----------------------------------------------------------------------------
(* Function-like nodes *)

\* params: one entry per parameter, "id" (a), "default" (a = (1)) or "rest" (...a).
\* bare: the only parameter of an arrow function is written without parentheses.
\* wrapped: the function expression is written inside parentheses.
\* shorthand: the function is the value of a method written key(...) {...}.
FnNode(type, async, generator, id, params, bare, wrapped, shorthand, parent) ==
  [type |-> type, async |-> async, generator |-> generator, id |-> id,
   params |-> params, bare |-> bare, wrapped |-> wrapped,
   shorthand |-> shorthand, parent |-> parent]

\* the keys a parser can produce, with the computed flag of the member
PublicKeys ==
  { <<IdentKey(S_foo), FALSE>>, <<IdentKey(S_constructor), FALSE>>,
    <<IdentKey(S_foo), TRUE>>,
    <<StringKey(S_foo), FALSE>>, <<StringKey(S_foo), TRUE>>,
    <<StringKey(S_hashfoo), FALSE>>, <<StringKey(S_constructor), TRUE>>,
    <<NumberKey(100), FALSE>>, <<NumberKey(100), TRUE>>,
    <<NullKey, TRUE>>, <<RegexKey, TRUE>>, <<BigintKey, TRUE>>,
    <<TemplateKey(S_foo), TRUE>>, <<DynTemplateKey, TRUE>>, <<BinaryKey, TRUE>> }

ClassKeys == PublicKeys \cup { <<PrivateKey(S_foo), FALSE>> }

ConstructorKeys == { <<IdentKey(S_constructor), FALSE>>, <<StringKey(S_constructor), FALSE>> }

FunctionIds == { None, Some(S_bar), Some(S_constructor) }

\* the member-like parents
PropertyParents(kinds) ==
  { Parent("Property", k, FALSE, kc[2], kc[1]) : k \in kinds, kc \in PublicKeys }

MethodParents(kinds) ==
  { Parent("MethodDefinition", k, st, kc[2], kc[1]) :
      k \in kinds, st \in BOOLEAN, kc \in ClassKeys }

ConstructorParents ==
  { Parent("MethodDefinition", "constructor", FALSE, kc[2], kc[1]) : kc \in ConstructorKeys }

FieldParents ==
  { Parent("PropertyDefinition", "none", st, kc[2], kc[1]) : st \in BOOLEAN, kc \in ClassKeys }

\* every shape of function-like node, with the parameter list ps
PlainShapes(ps) ==
  { FnNode("FunctionDeclaration", a, g, id, ps, FALSE, FALSE, FALSE, OtherParent) :
      a \in BOOLEAN, g \in BOOLEAN, id \in FunctionIds }
  \cup
  { FnNode("FunctionExpression", a, g, id, ps, FALSE, w, FALSE, OtherParent) :
      a \in BOOLEAN, g \in BOOLEAN, id \in FunctionIds, w \in BOOLEAN }

ArrowShapes(ps, parents) ==
  { FnNode("ArrowFunctionExpression", a, FALSE, None, ps, b, w, FALSE, p) :
      a \in BOOLEAN, b \in {FALSE, Len(ps) = 1 /\ ps[1] = "id"}, w \in BOOLEAN, p \in parents }

MemberShapes(ps) ==
  \* key: function ... / key = function ...
  { FnNode("FunctionExpression", a, g, id, ps, FALSE, w, FALSE, p) :
      a \in BOOLEAN, g \in BOOLEAN, id \in FunctionIds, w \in BOOLEAN,
      p \in PropertyParents({"init"}) \cup FieldParents }
  \cup
  \* key(...) {...}
  { FnNode("FunctionExpression", a, g, None, ps, FALSE, FALSE, TRUE, p) :
      a \in BOOLEAN, g \in BOOLEAN,
      p \in PropertyParents({"init"}) \cup MethodParents({"method"}) \cup ConstructorParents }
  \cup
  \* get key() {...}, set key(v) {...}
  { FnNode("FunctionExpression", FALSE, FALSE, None, ps, FALSE, FALSE, TRUE, p) :
      p \in PropertyParents({"get", "set"}) \cup MethodParents({"get", "set"}) }
  \cup
  ArrowShapes(ps, PropertyParents({"init"}) \cup FieldParents)

Shapes(ps) == PlainShapes(ps) \cup ArrowShapes(ps, {OtherParent}) \cup MemberShapes(ps)

----------------------------------------------------------------------------
(* Source text: the tokens of a function-like node in its context.          *)
(* A token carries the roles the parser gives it: the first token of the    *)
(* parent ("parentStart"), of the node ("nodeStart"), of node.id ("id"), of *)
(* node.params[0] ("param0"), of node.body ("body"), the last token of the  *)
(* node ("nodeEnd"); "lparen" and "arrow" mark the parenthesis that opens   *)
(* the node's parameter list and the node's own arrow.                      *)

Tok(type, value, roles) == [type |-> type, value |-> value, roles |-> roles]

Punct(v)   == Tok("Punctuator", v, {})
Keyword(v) == Tok("Keyword", v, {})
Ident(v)   == Tok("Identifier", v, {})

\* the one-character string holding a backquote
BQ == "backquote"

LPAREN == <<"(">>
RPAREN == <<")">>
ARROW  == <<"=", ">">>

WithRole(tok, role) == [tok EXCEPT !.roles = @ \cup {role}]
MarkFirst(toks, role) == [toks EXCEPT ![1] = WithRole(@, role)]

\* one parameter: a | a = (b => 1) | ...a
ParamTokens(kind) ==
  CASE kind = "default" ->
         << Ident(<<"a">>), Punct(<<"=">>), Punct(LPAREN), Ident(<<"b">>),
            Punct(ARROW), Tok("Numeric", <<"1">>, {}), Punct(RPAREN) >>
    [] kind = "rest" -> << Punct(<<".", ".", ".">>), Ident(<<"a">>) >>
    [] OTHER -> << Ident(<<"a">>) >>

RECURSIVE ParamListTokens(_, _)
ParamListTokens(ps, k) ==
  IF k > Len(ps) THEN <<>>
  ELSE (IF k > 1 THEN <<Punct(<<",">>)>> ELSE <<>>)
       \o (IF k = 1 THEN MarkFirst(ParamTokens(ps[k]), "param0") ELSE ParamTokens(ps[k]))
       \o ParamListTokens(ps, k + 1)

ParamsTokens(node) ==
  IF node.bare
  THEN ParamListTokens(node.params, 1)
  ELSE <<WithRole(Punct(LPAREN), "lparen")>> \o ParamListTokens(node.params, 1)
       \o <<Punct(RPAREN)>>

BodyTokens == << WithRole(Punct(<<"{">>), "body"), WithRole(Punct(<<"}">>), "nodeEnd") >>

AsyncTokens(node) == IF node.async THEN <<Ident(S_async)>> ELSE <<>>
StarTokens(node)  == IF node.generator THEN <<Punct(<<"*">>)>> ELSE <<>>

\* the tokens of the function node itself
FnTokens(node) ==
  MarkFirst(
    IF node.shorthand THEN ParamsTokens(node) \o BodyTokens
    ELSE IF node.type = "ArrowFunctionExpression"
    THEN AsyncTokens(node) \o ParamsTokens(node)
         \o <<WithRole(Punct(ARROW), "arrow")>> \o BodyTokens
    ELSE AsyncTokens(node) \o <<Keyword(S_function)>> \o StarTokens(node)
         \o (IF node.id.some THEN <<WithRole(Ident(node.id.v), "id")>> ELSE <<>>)
         \o ParamsTokens(node) \o BodyTokens,
    "nodeStart")

WrapTokens(node) ==
  IF node.wrapped THEN <<Punct(LPAREN)>> \o FnTokens(node) \o <<Punct(RPAREN)>>
  ELSE FnTokens(node)

KeyTokens(parent) ==
  LET key == parent.key
      bare ==
        CASE key.type = "Identifier" -> <<Ident(key.name)>>
          [] key.type = "PrivateIdentifier" ->
               <<Tok("PrivateIdentifier", <<"#">> \o key.name, {})>>
          [] key.type = "Literal" /\ key.vkind = "string" ->
               <<Tok("String", Quoted(key.str), {})>>
          [] key.type = "Literal" /\ key.vkind = "number" ->
               <<Tok("Numeric", NumberToString(key.num), {})>>
          [] key.type = "Literal" /\ key.regex ->
               <<Tok("RegularExpression", <<"/">> \o key.str \o <<"/">> \o key.flags, {})>>
          [] key.type = "Literal" /\ key.bigint ->
               <<Tok("Numeric", key.str \o <<"n">>, {})>>
          [] key.type = "Literal" -> <<Tok("Null", S_null, {})>>
          [] key.type = "TemplateLiteral" /\ key.nexpr = 0 ->
               <<Tok("Template", <<BQ>> \o key.str \o <<BQ>>, {})>>
          [] key.type = "TemplateLiteral" ->
               << Tok("Template", <<BQ, "$", "{">>, {}), Ident(<<"b">>),
                  Tok("Template", <<"}", BQ>>, {}) >>
          [] OTHER ->
               << Punct(LPAREN), Tok("String", Quoted(<<"a">>), {}), Punct(<<"+">>),
                  Tok("String", Quoted(<<"b">>), {}), Punct(RPAREN) >>
  IN IF parent.computed THEN <<Punct(<<"[">>)>> \o bare \o <<Punct(<<"]">>)>> ELSE bare

\* the member with the function as its value: the parent node
MemberTokens(node) ==
  LET parent == node.parent IN
  MarkFirst(
    (IF parent.static THEN <<Keyword(S_static)>> ELSE <<>>)
    \o (IF node.shorthand
        THEN AsyncTokens(node) \o StarTokens(node)
             \o (IF parent.kind = "get" THEN <<Ident(<<"g", "e", "t">>)>>
                 ELSE IF parent.kind = "set" THEN <<Ident(<<"s", "e", "t">>)>>
                 ELSE <<>>)
             \o KeyTokens(parent) \o FnTokens(node)
        ELSE KeyTokens(parent)
             \o <<Punct(IF parent.type = "Property" THEN <<":">> ELSE <<"=">>)>>
             \o WrapTokens(node)),
    "parentStart")

\* one line of source holding the node
LineTokens(node) ==
  CASE node.parent.type = "Property" ->
         <<Punct(LPAREN), Punct(<<"{">>)>> \o MemberTokens(node)
         \o <<Punct(<<"}">>), Punct(RPAREN)>>
    [] node.parent.type \in {"MethodDefinition", "PropertyDefinition"} ->
         <<Keyword(<<"c", "l", "a", "s", "s">>), Ident(<<"A">>), Punct(<<"{">>)>>
         \o MemberTokens(node) \o <<Punct(<<"}">>)>>
    [] node.type = "FunctionDeclaration" -> FnTokens(node)
    [] OTHER ->
         <<Keyword(<<"v", "a", "r">>), Ident(<<"t">>), Punct(<<"=">>)>>
         \o WrapTokens(node) \o <<Punct(<<";">>)>>

\* spaces written before token cur when it follows prev on the line
SpaceBefore(prev, cur) ==
  IF cur.value \in {RPAREN, <<",">>, <<";">>, <<"]">>, <<":">>} THEN 0
  ELSE IF prev.value \in {LPAREN, <<"[">>, <<".", ".", ".">>} THEN 0
  ELSE IF cur.value = LPAREN
          /\ (prev.type \in {"Identifier", "PrivateIdentifier", "String", "Numeric",
                             "Template", "Null", "RegularExpression"}
              \/ prev.value \in {S_function, <<"*">>, <<"]">>})
  THEN 0
  ELSE 1

\* the lexer: positions of the tokens of line number line
RECURSIVE Layout(_, _, _, _)
Layout(toks, k, col, line) ==
  IF k > Len(toks) THEN <<>>
  ELSE LET start == IF k = 1 THEN 0 ELSE col + SpaceBefore(toks[k - 1], toks[k])
           end   == start + Len(toks[k].value)
       IN << [type |-> toks[k].type, value |-> toks[k].value, roles |-> toks[k].roles,
              line |-> line,
              loc |-> [start |-> [line |-> line, column |-> start],
                       end |-> [line |-> line, column |-> end]]] >>
          \o Layout(toks, k + 1, end, line)

\* sourceCode: all tokens of the program, line after line
RECURSIVE SourceTokens(_, _)
SourceTokens(prog, line) ==
  IF line > Len(prog) THEN <<>>
  ELSE Layout(LineTokens(prog[line]), 1, 0, line) \o SourceTokens(prog, line + 1)

\* index of the token of line number line that has the role, 0 when there is none
TokenWithRole(tokens, line, role) ==
  LET hits == { k \in 1..Len(tokens) :
                  tokens[k].line = line /\ role \in tokens[k].roles }
  IN IF hits = {} THEN 0 ELSE CHOOSE k \in hits : TRUE

\* the parser: the node of line number line with its ranges, as token indices
AstNode(prog, tokens, line) ==
  prog[line] @@
  [line |-> line,
   first |-> TokenWithRole(tokens, line, "nodeStart"),
   last |-> TokenWithRole(tokens, line, "nodeEnd"),
   idTok |-> TokenWithRole(tokens, line, "id"),
   param0 |-> TokenWithRole(tokens, line, "param0"),
   body |-> TokenWithRole(tokens, line, "body"),
   parentFirst |-> TokenWithRole(tokens, line, "parentStart")]

\* the function-like nodes of the tree of prog
Ast(prog) ==
  LET tokens == SourceTokens(prog, 1) IN
  [line \in 1..Len(prog) |-> AstNode(prog, tokens, line)]

----------------------------------------------------------------------------
(* ast-utils.js: tokens and head location *)

isOpeningParenToken(token) == token.value = LPAREN /\ token.type = "Punctuator"

isArrowToken(token) == token.value = ARROW /\ token.type = "Punctuator"

\* the filter argument of the SourceCode methods, by name; "none" when the
\* call gives no filter
Matches(filter, token) ==
  CASE filter = "isOpeningParenToken" -> isOpeningParenToken(token)
    [] filter = "isArrowToken" -> isArrowToken(token)
    [] OTHER -> TRUE

\* SourceCode: a token is its index in the token list; 0 is null
getFirstToken(src, first, last, filter) ==
  LET hits == { k \in first..last : Matches(filter, src[k]) }
  IN IF hits = {} THEN 0 ELSE CHOOSE k \in hits : \A j \in hits : k <= j

getTokenAfter(src, tok, filter) ==
  getFirstToken(src, tok + 1, Len(src), filter)

\* a token lookup that returns the first match in the source, not the nearest
getTokenBefore_first(src, tok, filter) ==
  LET hits == { k \in 1..(tok - 1) : Matches(filter, src[k]) }
  IN IF hits = {} THEN 0 ELSE CHOOSE k \in hits : \A j \in hits : k <= j

getTokenBefore(src, tok, filter) ==
  LET hits == { k \in 1..(tok - 1) : Matches(filter, src[k]) }
  IN IF hits = {} THEN 0 ELSE CHOOSE k \in hits : \A j \in hits : k >= j

\* reading a property of null throws a TypeError
Thrown == -1

\* a head location that takes the last parenthesis before the body
getOpeningParenOfParams_lastParen(node, src) ==
  getTokenBefore(src, node.body, "isOpeningParenToken")

getOpeningParenOfParams(node, src) ==
  IF node.type = "ArrowFunctionExpression" /\ Len(node.params) = 1
  THEN LET argToken == node.param0
           maybeParenToken == getTokenBefore(src, argToken, "none")
       IN IF maybeParenToken = 0 THEN Thrown
          ELSE IF isOpeningParenToken(src[maybeParenToken])
          THEN maybeParenToken
          ELSE argToken
  ELSE IF node.id.some
  THEN getTokenAfter(src, node.idTok, "isOpeningParenToken")
  ELSE getFirstToken(src, node.first, node.last, "isOpeningParenToken")

\* the value of a call that threw
TypeError == [start |-> [line |-> 0, column |-> 0], end |-> [line |-> 0, column |-> 0]]

\* a head location that tries the arrow case before the member case
getFunctionHeadLoc_arrowFirst(node, src) ==
  LET parent == node.parent IN
  IF node.type = "ArrowFunctionExpression"
  THEN LET arrowToken == getTokenBefore(src, node.body, "isArrowToken") IN
       IF arrowToken = 0 THEN TypeError
       ELSE [start |-> src[arrowToken].loc.start,
             end |-> src[arrowToken].loc.end]
  ELSE LET paren == getOpeningParenOfParams(node, src) IN
       IF paren <= 0 THEN TypeError
       ELSE IF parent.type \in {"Property", "MethodDefinition", "PropertyDefinition"}
       THEN [start |-> src[node.parentFirst].loc.start,
             end |-> src[paren].loc.start]
       ELSE [start |-> src[node.first].loc.start,
             end |-> src[paren].loc.start]

getFunctionHeadLoc(node, src) ==
  LET parent == node.parent IN
  IF parent.type \in {"Property", "MethodDefinition", "PropertyDefinition"}
  THEN LET paren == getOpeningParenOfParams(node, src) IN
       IF paren <= 0 THEN TypeError
       ELSE [start |-> src[node.parentFirst].loc.start,
             end |-> src[paren].loc.start]
  ELSE IF node.type = "ArrowFunctionExpression"
  THEN LET arrowToken == getTokenBefore(src, node.body, "isArrowToken") IN
       IF arrowToken = 0 THEN TypeError
       ELSE [start |-> src[arrowToken].loc.start,
             end |-> src[arrowToken].loc.end]
  ELSE LET paren == getOpeningParenOfParams(node, src) IN
       IF paren <= 0 THEN TypeError
       ELSE [start |-> src[node.first].loc.start,
             end |-> src[paren].loc.start]

----------------------------------------------------------------------------
(* better-max-params.js: values and options *)

\* JavaScript values an option can hold; Fraction(n) is the number n + 0.5
IntVal(n)   == [t |-> "int", n |-> n]
Fraction(n) == [t |-> "fraction", n |-> n]
Undefined   == [t |-> "undefined", n |-> 0]
ObjectFn    == [t |-> "function", n |-> 0]   \* Object.prototype.constructor
Absent      == [t |-> "absent", n |-> 0]     \* no own property of that name

\* context.options[0]: its own properties func, constructor and max (a
\* property the rule does not know)
Option(func, ctor, max) ==
  [present |-> TRUE, func |-> func, constructor |-> ctor, max |-> max]

NoOption == [present |-> FALSE, func |-> Absent, constructor |-> Absent, max |-> Absent]

OwnKeys(option) == { k \in {"func", "constructor", "max"} : option[k] # Absent }

\* option[name]: an own property, else what Object.prototype gives
Get(option, name) ==
  IF option[name] # Absent THEN option[name]
  ELSE IF name = "constructor" THEN ObjectFn
  ELSE Undefined

ToBoolean(v) ==
  CASE v.t = "int" -> v.n # 0
    [] v.t \in {"fraction", "function"} -> TRUE
    [] OTHER -> FALSE

\* count > v for an integer count: ToNumber(v) is NaN for undefined and for a function
GreaterThan_undefinedIsZero(count, v) ==
  CASE v.t = "int" -> count > v.n
    [] v.t = "fraction" -> count > v.n
    [] OTHER -> count > 0

GreaterThan(count, v) ==
  CASE v.t = "int" -> count > v.n
    [] v.t = "fraction" -> count > v.n
    [] OTHER -> FALSE

----------------------------------------------------------------------------
(* better-max-params.js: meta.schema, as the host's validator applies it *)

\* type: "integer", minimum: 0
IntegerMinimum0_positive(v) == v.t = "int" /\ v.n > 0

IntegerMinimum0(v) == v.t = "int" /\ v.n >= 0

\* properties: each listed property that is not undefined must match; the
\* validator reads data[p], so an inherited property is read too
PropertiesOk(data, props) ==
  \A p \in props : Get(data, p) = Undefined \/ IntegerMinimum0(Get(data, p))

\* additionalProperties: false
NoAdditionalProperties(data, props) == OwnKeys(data) \subseteq props

ObjectSchema(data, props) ==
  PropertiesOk(data, props) /\ NoAdditionalProperties(data, props)

\* the two branches of oneOf
SchemaBranches == { {"func"}, {"func", "constructor"} }

\* oneOf: exactly one branch matches; no option at all is not validated
SchemaAccepts(data) ==
  ~data.present
  \/ Cardinality({ props \in SchemaBranches : ObjectSchema(data, props) }) = 1

----------------------------------------------------------------------------
(* better-max-params.js: the rule *)

LowerCase == <<"a","b","c","d","e","f","g","h","i","j","k","l","m",
               "n","o","p","q","r","s","t","u","v","w","x","y","z">>
UpperCase == <<"A","B","C","D","E","F","G","H","I","J","K","L","M",
               "N","O","P","Q","R","S","T","U","V","W","X","Y","Z">>

\* String.prototype.toUpperCase on the characters the labels use
toUpperCase(string) ==
  [k \in 1..Len(string) |->
     IF \E i \in 1..Len(LowerCase) : LowerCase[i] = string[k]
     THEN UpperCase[CHOOSE i \in 1..Len(LowerCase) : LowerCase[i] = string[k]]
     ELSE string[k]]

upperCaseFirst_all(string) == toUpperCase(string)

upperCaseFirst(string) ==
  IF Len(string) <= 1
  THEN toUpperCase(string)
  ELSE toUpperCase(<<string[1]>>) \o SubSeq(string, 2, Len(string))

buildError(node, name, src, max) ==
  [loc |-> getFunctionHeadLoc(node, src),
   node |-> node,
   messageId |-> "exceed",
   data |-> [name |-> upperCaseFirst(name),
             count |-> Len(node.params),
             max |-> max]]

\* create(): the two closure variables
createFuncNumParams(option) ==
  IF option.present /\ ToBoolean(Get(option, "func"))
  THEN Get(option, "func") ELSE Undefined

createConstructorNumParams(option) ==
  IF option.present /\ ToBoolean(Get(option, "constructor"))
  THEN Get(option, "constructor") ELSE Undefined

\* a checkFunction that compares every node against the func limit
checkFunction_funcOnly(node, src, funcLimit, ctorLimit) ==
  LET name == getFunctionNameWithKind(node) IN
  IF GreaterThan(Len(node.params), funcLimit)
  THEN <<buildError(node, name, src, funcLimit)>>
  ELSE <<>>

\* checkFunction(node): the records it hands to context.report
checkFunction(node, src, funcLimit, ctorLimit) ==
  LET name == getFunctionNameWithKind(node) IN
  IF name = S_constructor
  THEN IF GreaterThan(Len(node.params), ctorLimit)
       THEN <<buildError(node, name, src, ctorLimit)>>
       ELSE <<>>
  ELSE IF GreaterThan(Len(node.params), funcLimit)
  THEN <<buildError(node, name, src, funcLimit)>>
  ELSE <<>>

----------------------------------------------------------------------------
(* Bounds *)

MaxCalls  == 2    \* calls of a helper on the same node
MaxParams == 3    \* parameters of a function of the linted program
MaxLimit  == 2    \* largest limit a configuration sets
MaxNodes  == 2    \* function-like nodes of the linted program

----------------------------------------------------------------------------
(* The labeler applied to every shape of node *)

LabelNodes == Shapes(<<>>) \cup Shapes(<<"id">>)

InitLabel ==
  /\ subject \in LabelNodes
  /\ pc = "label"
  /\ labelOut = <<>>
  /\ locOut = <<>>
  /\ parenOut = <<>>
  /\ options = NoOption
  /\ schemaOk = FALSE
  /\ funcNumParams = Undefined
  /\ constructorNumParams = Undefined
  /\ sourceCode = <<>>
  /\ program = <<>>
  /\ visited = {}
  /\ reports = <<>>

CallLabel ==
  /\ pc = "label"
  /\ Len(labelOut) < MaxCalls
  /\ labelOut' = Append(labelOut, getFunctionNameWithKind(subject))
  /\ UNCHANGED <<options, pc, schemaOk, funcNumParams, constructorNumParams,
                 sourceCode, program, visited, reports, subject, locOut, parenOut>>

NextLabel == CallLabel

SpecLabel == InitLabel /\ [][NextLabel]_vars

----------------------------------------------------------------------------
(* The location extractor applied to every shape of node *)

LocParams == { <<>>, <<"id">>, <<"default">>, <<"id", "rest">> }

LocNodes == UNION { Shapes(ps) : ps \in LocParams }

InitLoc ==
  /\ subject \in LocNodes
  /\ pc = "loc"
  /\ labelOut = <<>>
  /\ locOut = <<>>
  /\ parenOut = <<>>
  /\ options = NoOption
  /\ schemaOk = FALSE
  /\ funcNumParams = Undefined
  /\ constructorNumParams = Undefined
  /\ sourceCode = SourceTokens(<<subject>>, 1)
  /\ program = Ast(<<subject>>)
  /\ visited = {}
  /\ reports = <<>>

CallLoc ==
  /\ pc = "loc"
  /\ Len(locOut) < MaxCalls
  /\ locOut' = Append(locOut, getFunctionHeadLoc(program[1], sourceCode))
  /\ UNCHANGED <<options, pc, schemaOk, funcNumParams, constructorNumParams,
                 sourceCode, program, visited, reports, subject, labelOut, parenOut>>

\* getOpeningParenOfParams(subject, sourceCode): the token it returns, as its
\* index in sourceCode
CallParen ==
  /\ pc = "loc"
  /\ Len(parenOut) < MaxCalls
  /\ parenOut' = Append(parenOut, getOpeningParenOfParams(program[1], sourceCode))
  /\ UNCHANGED <<options, pc, schemaOk, funcNumParams, constructorNumParams,
                 sourceCode, program, visited, reports, subject, labelOut, locOut>>

NextLoc == CallLoc \/ CallParen

SpecLoc == InitLoc /\ [][NextLoc]_vars

----------------------------------------------------------------------------
(* A run of the rule: the host validates the options, calls create() and    *)
(* hands every function-like node of the tree to checkFunction              *)

OptionValues ==
  { Absent, IntVal(-1), Fraction(1) } \cup { IntVal(n) : n \in 0..MaxLimit }

RawOptions ==
  { NoOption } \cup
  { Option(f, c, m) : f \in OptionValues, c \in OptionValues, m \in {Absent, IntVal(1)} }

Ids(n) == [k \in 1..n |-> "id"]

Decl(ps) ==
  FnNode("FunctionDeclaration", FALSE, FALSE, Some(S_bar), ps, FALSE, FALSE, FALSE, OtherParent)

Ctor(ps) ==
  FnNode("FunctionExpression", FALSE, FALSE, None, ps, FALSE, FALSE, TRUE,
         Parent("MethodDefinition", "constructor", FALSE, FALSE, IdentKey(S_constructor)))

\* the functions of the linted program: declarations and constructors of
\* every parameter count, and one of each other kind
OtherRuleNodes ==
  << Decl(<<"default", "rest">>), Ctor(<<"default", "rest">>),
     \* var t = a => {};
     FnNode("ArrowFunctionExpression", FALSE, FALSE, None, <<"id">>, TRUE, FALSE, FALSE,
            OtherParent),
     \* var t = (function(a, ...) {});
     FnNode("FunctionExpression", FALSE, FALSE, None, Ids(MaxParams), FALSE, TRUE, FALSE,
            OtherParent),
     \* class A { static async foo(a, ...) {} }
     FnNode("FunctionExpression", TRUE, FALSE, None, Ids(MaxParams), FALSE, FALSE, TRUE,
            Parent("MethodDefinition", "method", TRUE, FALSE, IdentKey(S_foo))),
     \* ({ constructor: function constructor(a, ...) {} })
     FnNode("FunctionExpression", FALSE, FALSE, Some(S_constructor), Ids(MaxParams), FALSE,
            FALSE, FALSE, Parent("Property", "init", FALSE, FALSE, IdentKey(S_constructor))) >>

RuleNodes ==
  [c \in 1..(MaxParams + 1) |-> Decl(Ids(c - 1))]
  \o [c \in 1..(MaxParams + 1) |-> Ctor(Ids(c - 1))]
  \o OtherRuleNodes

\* the programs of up to MaxNodes functions, one per line; two programs that
\* differ only in the order of their lines are listed once
ProgramIndices ==
  UNION { { f \in [1..n -> 1..Len(RuleNodes)] : \A k \in 1..(n - 1) : f[k] <= f[k + 1] } :
          n \in 1..MaxNodes }

Programs == { [k \in DOMAIN f |-> RuleNodes[f[k]]] : f \in ProgramIndices }

Init ==
  /\ options \in RawOptions
  /\ pc = "validate"
  /\ schemaOk = FALSE
  /\ funcNumParams = Undefined
  /\ constructorNumParams = Undefined
  /\ sourceCode = <<>>
  /\ program = <<>>
  /\ visited = {}
  /\ reports = <<>>
  /\ subject = Decl(<<>>)
  /\ labelOut = <<>>
  /\ locOut = <<>>
  /\ parenOut = <<>>

\* the host checks the options against meta.schema before the rule runs
Validate ==
  /\ pc = "validate"
  /\ schemaOk' = SchemaAccepts(options)
  /\ pc' = IF SchemaAccepts(options) THEN "create" ELSE "rejected"
  /\ UNCHANGED <<options, funcNumParams, constructorNumParams, sourceCode, program,
                 visited, reports, subject, labelOut, locOut, parenOut>>

\* create(context), for the tree of the file being linted
Create ==
  /\ pc = "create"
  /\ funcNumParams' = createFuncNumParams(options)
  /\ constructorNumParams' = createConstructorNumParams(options)
  /\ \E prog \in Programs :
       /\ sourceCode' = SourceTokens(prog, 1)
       /\ program' = Ast(prog)
  /\ pc' = "walk"
  /\ UNCHANGED <<options, schemaOk, visited, reports, subject, labelOut, locOut, parenOut>>

\* a handler that stops checking once a violation was reported
CheckFunction_stopAfterFirst(i) ==
  /\ pc = "walk"
  /\ i \notin visited
  /\ reports' = IF reports = <<>>
                THEN checkFunction(program[i], sourceCode, funcNumParams,
                                   constructorNumParams)
                ELSE reports
  /\ visited' = visited \cup {i}
  /\ UNCHANGED <<options, pc, schemaOk, funcNumParams, constructorNumParams,
                 sourceCode, program, subject, labelOut, locOut, parenOut>>

\* the handler of FunctionDeclaration, ArrowFunctionExpression and
\* FunctionExpression, called for the node of line i
CheckFunction(i) ==
  /\ pc = "walk"
  /\ i \notin visited
  /\ reports' = reports \o checkFunction(program[i], sourceCode, funcNumParams,
                                          constructorNumParams)
  /\ visited' = visited \cup {i}
  /\ UNCHANGED <<options, pc, schemaOk, funcNumParams, constructorNumParams,
                 sourceCode, program, subject, labelOut, locOut, parenOut>>

Next ==
  \/ Validate
  \/ Create
  \/ \E i \in 1..Len(program) : CheckFunction(i)

Spec == Init /\ [][Next]_vars

----------------------------------------------------------------------------
(* Claims about the labeler, checked under SpecLabel *)

Labelled == pc = "label" /\ Len(labelOut) > 0

IsMember(node) == node.parent.type \in MemberTypes

\* the text a key stands for, read off the key as written in the source
KeyText(parent) ==
  LET key == parent.key IN
  CASE key.type = "Identifier" /\ ~parent.computed -> Some(key.name)
    [] key = StringKey(S_foo) \/ key = TemplateKey(S_foo) -> Some(S_foo)
    [] key = StringKey(S_hashfoo) -> Some(S_hashfoo)
    [] key = StringKey(S_constructor) -> Some(S_constructor)
    [] key = NumberKey(100) -> Some(<<"1", "0", "0">>)
    [] key = NullKey -> Some(S_null)
    [] key = RegexKey -> Some(<<"/", "a", "/", "u">>)
    [] key = BigintKey -> Some(<<"7">>)
    [] OTHER -> None

\* C5: the label is exactly "constructor" if and only if the parent is a
\* Property or MethodDefinition of kind "constructor"; the words collected
\* before (async, generator) and the name are dropped, and a function or a
\* member merely named constructor gets another label.
C5_ConstructorLabel ==
  Labelled =>
    \A k \in 1..Len(labelOut) :
      (labelOut[k] = S_constructor)
        <=> (subject.parent.type \in {"Property", "MethodDefinition"}
             /\ subject.parent.kind = "constructor")

C5_Witness ==
  /\ Labelled
  /\ subject.parent.kind = "constructor"
  /\ subject.async
  /\ labelOut[1] = S_constructor

\* C6: for a node whose parent is no member-like node the label is
\* "async " (iff async), "generator " (iff generator), "arrow " (iff arrow
\* function), "function", then " 'name'" iff the node has its own id.
C6_PlainLabel ==
  (Labelled /\ ~IsMember(subject)) =>
    labelOut[1] =
      (IF subject.async THEN S_async \o <<" ">> ELSE <<>>)
      \o (IF subject.generator THEN S_generator \o <<" ">> ELSE <<>>)
      \o (IF subject.type = "ArrowFunctionExpression" THEN S_arrow \o <<" ">> ELSE <<>>)
      \o S_function
      \o (IF subject.id.some THEN <<" ", "'">> \o subject.id.v \o <<"'">> ELSE <<>>)

C6_Witness ==
  /\ Labelled
  /\ ~IsMember(subject)
  /\ subject.type = "ArrowFunctionExpression"
  /\ subject.async
  /\ labelOut[1] = S_async \o <<" ">> \o S_arrow \o <<" ">> \o S_function

\* C7: for a member that is no constructor the label ends with #name for a
\* non-computed private key, else with the quoted key text when the key is
\* static, else with the function's own quoted name, else with the kind word.
C7_NameSuffix ==
  (Labelled /\ IsMember(subject) /\ subject.parent.kind # "constructor") =>
    LET parent == subject.parent
        head   == Join(modifierWords(subject) \o kindWords(subject), <<" ">>)
        suffix == IF ~parent.computed /\ parent.key.type = "PrivateIdentifier"
                  THEN <<" ", "#">> \o parent.key.name
                  ELSE IF KeyText(parent).some
                  THEN <<" ", "'">> \o KeyText(parent).v \o <<"'">>
                  ELSE IF subject.id.some
                  THEN <<" ", "'">> \o subject.id.v \o <<"'">>
                  ELSE <<>>
    IN labelOut[1] = head \o suffix

C7_Witness ==
  /\ Labelled
  /\ subject.parent.type = "Property"
  /\ subject.parent.key = StringKey(S_foo)
  /\ subject.id = Some(S_bar)
  /\ labelOut[1] = S_method \o <<" ", "'">> \o S_foo \o <<"'">>

----------------------------------------------------------------------------
(* Claims about the head location, checked under SpecLoc *)

Located == pc = "loc" /\ Len(locOut) > 0

\* C8: for a function that is neither a member nor an arrow function the
\* head location starts where the node starts and ends where the parenthesis
\* opening its parameter list starts.
C8_PlainHeadLoc ==
  (Located /\ ~IsMember(subject) /\ subject.type # "ArrowFunctionExpression") =>
    /\ locOut[1].start = sourceCode[TokenWithRole(sourceCode, 1, "nodeStart")].loc.start
    /\ locOut[1].end = sourceCode[TokenWithRole(sourceCode, 1, "lparen")].loc.start

\* var t = (function(a = (b => 1)) {});
C8_Witness ==
  /\ Located
  /\ subject = FnNode("FunctionExpression", FALSE, FALSE, None, <<"default">>, FALSE, TRUE,
                      FALSE, OtherParent)
  /\ locOut[1] = [start |-> [line |-> 1, column |-> 9], end |-> [line |-> 1, column |-> 17]]

----------------------------------------------------------------------------
(* Claims about a run of the rule, checked under Spec *)

Walking == pc = "walk"

Count(node) == Len(node.params)

\* the option that sets the limit of the node's category
LimitName(node) ==
  IF getFunctionNameWithKind(node) = S_constructor THEN "constructor" ELSE "func"

\* the limit configured for the node's category, Absent when there is none
OwnLimit(node) == options[LimitName(node)]

ReportsFor(node) == { k \in 1..Len(reports) : reports[k].node = node }

\* C1: a visited node whose category has the limit m >= 0 is reported exactly
\* once if its parameter count exceeds m and not at all otherwise.
C1_ReportedIffExceeds ==
  Walking =>
    \A i \in visited :
      LET m == OwnLimit(program[i]) IN
      (m.t = "int" /\ m.n >= 0) =>
        Cardinality(ReportsFor(program[i])) = (IF Count(program[i]) > m.n THEN 1 ELSE 0)

\* C2: a visited node whose category has no configured limit is never reported.
C2_UnsetLimitNoReport ==
  Walking =>
    \A i \in visited :
      (~options.present \/ OwnLimit(program[i]) = Absent) => ReportsFor(program[i]) = {}

\* { func: 0 } or { func: 1 }, and a constructor with parameters was visited
C2_Witness ==
  /\ Walking
  /\ options.func \in { IntVal(0), IntVal(1) }
  /\ options.constructor = Absent
  /\ \E i \in visited :
       /\ LimitName(program[i]) = "constructor"
       /\ Count(program[i]) = MaxParams
  /\ reports = <<>>

\* C3: every record carries the limit of the node's own category, which the
\* count exceeds; a node within the limit of its own category is not
\* reported, whatever the other limit is.
C3_OwnCategoryLimit ==
  Walking =>
    /\ \A k \in 1..Len(reports) :
         LET own == OwnLimit(reports[k].node) IN
         /\ options.present
         /\ own.t = "int"
         /\ reports[k].data.max = own
         /\ reports[k].data.count > own.n
    /\ \A i \in visited :
         LET own == OwnLimit(program[i]) IN
         (own.t = "int" /\ Count(program[i]) <= own.n) => ReportsFor(program[i]) = {}

\* { func: 1, constructor: 2 }: a constructor with two parameters is not reported
C3_Witness ==
  /\ Walking
  /\ options = Option(IntVal(1), IntVal(2), Absent)
  /\ \E i \in visited :
       /\ LimitName(program[i]) = "constructor"
       /\ Count(program[i]) = 2
       /\ ReportsFor(program[i]) = {}

\* C4: every record has messageId "exceed", the offending node, the number
\* of its parameters as count, its label with the first character in upper
\* case as name, and its head location as loc.
C4_RecordFields ==
  Walking =>
    \A k \in 1..Len(reports) :
      LET r     == reports[k]
          label == getFunctionNameWithKind(r.node)
      IN /\ r.messageId = "exceed"
         /\ \E i \in visited : r.node = program[i]
         /\ r.data.count = Len(r.node.params)
         /\ Len(r.data.name) = Len(label)
         /\ \E j \in 1..Len(LowerCase) :
              label[1] = LowerCase[j] /\ r.data.name[1] = UpperCase[j]
         /\ Tail(r.data.name) = Tail(label)
         /\ r.loc = getFunctionHeadLoc(r.node, sourceCode)

\* function bar(a = (b => 1), ...a) {} is reported with count 2
C4_Witness ==
  /\ Walking
  /\ \E k \in 1..Len(reports) :
       /\ reports[k].node.params = <<"default", "rest">>
       /\ reports[k].data.count = 2
       /\ reports[k].data.name = <<"F">> \o Tail(S_function) \o <<" ", "'">> \o S_bar \o <<"'">>
       /\ reports[k].loc.end.column = 12

\* C9: the schema accepts exactly the objects whose only own properties are
\* func and constructor, each a non-negative integer.
C9_SchemaAccepts ==
  (pc # "validate" /\ options.present) =>
    (schemaOk <=>
       /\ options.max = Absent
       /\ \A p \in {"func", "constructor"} :
            options[p] = Absent \/ (options[p].t = "int" /\ options[p].n >= 0))

\* { func: 0 } is accepted
C9_Witness ==
  /\ pc = "create"
  /\ options = Option(IntVal(0), Absent, Absent)
  /\ schemaOk

\* C10: the records reported so far are those of the nodes visited so far,
\* each computed from the node and the configuration alone, whatever the
\* order of the visits; the closure variables do not change during the walk.
C10_OrderIndependent ==
  Walking =>
    LET expected(i) == checkFunction(program[i], sourceCode,
                                     createFuncNumParams(options),
                                     createConstructorNumParams(options))
    IN /\ { reports[k] : k \in 1..Len(reports) }
            = UNION { { expected(i)[k] : k \in 1..Len(expected(i)) } : i \in visited }
       /\ \A j, k \in 1..Len(reports) : reports[j] = reports[k] => j = k
       /\ funcNumParams = createFuncNumParams(options)
       /\ constructorNumParams = createConstructorNumParams(options)

\* two nodes were reported, the node of line 2 first
C10_Witness ==
  /\ Walking
  /\ visited = {1, 2}
  /\ Len(reports) = 2
  /\ reports[1].node.line = 2
  /\ reports[2].node.line = 1

----------------------------------------------------------------------------
(* Claims about the opening token of the parameters, checked under SpecLoc *)

ParenFound == pc = "loc" /\ Len(parenOut) > 0

IsArrow(node) == node.type = "ArrowFunctionExpression"

\* C11: for an arrow function with one parameter written without
\* parentheses getOpeningParenOfParams returns the first token of that
\* parameter, whatever token precedes it; when the parameter has its own
\* parentheses it returns their opening parenthesis.
C11_BareParamToken ==
  (ParenFound /\ IsArrow(subject) /\ Len(subject.params) = 1) =>
    \A k \in 1..Len(parenOut) :
      IF subject.bare
      THEN /\ parenOut[k] = TokenWithRole(sourceCode, 1, "param0")
           /\ ~isOpeningParenToken(sourceCode[parenOut[k]])
      ELSE parenOut[k] = TokenWithRole(sourceCode, 1, "lparen")

----------------------------------------------------------------------------
(* Claims about getFunctionHeadLoc on members and arrows, checked under SpecLoc *)

ArrowSpan ==
  LET arrowToken == TokenWithRole(sourceCode, 1, "arrow")
  IN [start |-> sourceCode[arrowToken].loc.start,
      end |-> sourceCode[arrowToken].loc.end]

\* C12: for a function whose parent is a Property, MethodDefinition or
\* PropertyDefinition, arrow functions included, the head location starts
\* where the parent starts and ends where the token returned by
\* getOpeningParenOfParams starts; it is not the span of the arrow token,
\* and its start is never after its end.
C12_MemberHeadLoc ==
  (Located /\ ParenFound /\ IsMember(subject)) =>
    \A k \in 1..Len(locOut) :
      /\ parenOut[1] > 0
      /\ locOut[k].start =
           sourceCode[TokenWithRole(sourceCode, 1, "parentStart")].loc.start
      /\ locOut[k].end = sourceCode[parenOut[1]].loc.start
      /\ locOut[k].start.line = locOut[k].end.line
      /\ locOut[k].start.column <= locOut[k].end.column
      /\ IsArrow(subject) => locOut[k] # ArrowSpan

\* the class field arrow of `class A { foo = (a) => {} }`
C12_Witness ==
  /\ Located /\ ParenFound
  /\ IsArrow(subject)
  /\ subject.parent.type = "PropertyDefinition"
  /\ ~subject.parent.static /\ ~subject.async
  /\ subject.parent.key = IdentKey(S_foo)
  /\ subject.params = <<"id">> /\ ~subject.bare /\ ~subject.wrapped
  /\ parenOut[1] = TokenWithRole(sourceCode, 1, "lparen")
  /\ locOut[1].start.column < locOut[1].end.column

\* C13: for an arrow function whose parent is no Property, MethodDefinition
\* or PropertyDefinition, the head location is exactly the span of the
\* function's own arrow token: every token of the function before the arrow
\* (async, the parameters) ends at or before its start, and the body starts
\* at or after its end.
C13_ArrowHeadLoc ==
  (Located /\ IsArrow(subject) /\ ~IsMember(subject)) =>
    \A k \in 1..Len(locOut) :
      LET arrowToken == TokenWithRole(sourceCode, 1, "arrow")
          body == TokenWithRole(sourceCode, 1, "body")
      IN /\ isArrowToken(sourceCode[arrowToken])
         /\ locOut[k] = ArrowSpan
         /\ locOut[k].end.column = locOut[k].start.column + 2
         /\ \A t \in program[1].first..(arrowToken - 1) :
              sourceCode[t].loc.end.column <= locOut[k].start.column
         /\ arrowToken < body
         /\ locOut[k].end.column <= sourceCode[body].loc.start.column

\* `var t = async (a = (b => 1)) => {};`: an arrow inside the parameters
C13_Witness ==
  /\ Located
  /\ IsArrow(subject) /\ ~IsMember(subject)
  /\ subject.async /\ ~subject.wrapped
  /\ subject.params = <<"default">>
  /\ \E t \in 1..Len(sourceCode) :
       /\ isArrowToken(sourceCode[t])
       /\ t < TokenWithRole(sourceCode, 1, "arrow")
  /\ locOut[1] = ArrowSpan

----------------------------------------------------------------------------
(* Claim about the words before the name suffix, checked under SpecLabel *)

\* the head of a member's label, spelled out from the member as written
MemberHead(node) ==
  LET parent == node.parent
      inClass == parent.type \in {"MethodDefinition", "PropertyDefinition"}
      accessor == parent.type \in {"Property", "MethodDefinition"}
  IN (IF inClass /\ parent.static THEN S_static \o <<" ">> ELSE <<>>)
     \o (IF inClass /\ ~parent.computed /\ parent.key.type = "PrivateIdentifier"
         THEN S_private \o <<" ">> ELSE <<>>)
     \o (IF node.async THEN S_async \o <<" ">> ELSE <<>>)
     \o (IF node.generator THEN S_generator \o <<" ">> ELSE <<>>)
     \o (IF accessor /\ parent.kind = "get" THEN S_getter
         ELSE IF accessor /\ parent.kind = "set" THEN S_setter
         ELSE S_method)

\* C14: the label of a member that is no constructor begins with "static",
\* "private", "async", "generator" in that order, each present exactly when
\* the member is so marked, then one kind word: "getter" or "setter" for a
\* Property or MethodDefinition of kind get or set, otherwise "method", also
\* for an arrow function; only the name suffix follows.
C14_MemberWordOrder ==
  (Labelled /\ IsMember(subject) /\ subject.parent.kind # "constructor") =>
    \A k \in 1..Len(labelOut) :
      LET head == MemberHead(subject)
          n == Len(head)
          label == labelOut[k]
      IN /\ Len(label) >= n
         /\ SubSeq(label, 1, n) = head
         /\ \/ Len(label) = n
            \/ /\ Len(label) > n + 2
               /\ label[n + 1] = " "
               /\ label[n + 2] \in {"'", "#"}

\* `class A { static async *#foo() {} }`
C14_Witness ==
  /\ Labelled
  /\ subject.parent.type = "MethodDefinition"
  /\ subject.parent.kind = "method"
  /\ subject.parent.static
  /\ subject.parent.key = PrivateKey(S_foo)
  /\ subject.async /\ subject.generator
  /\ labelOut[1] = S_static \o <<" ">> \o S_private \o <<" ">> \o S_async \o <<" ">>
                   \o S_generator \o <<" ">> \o S_method \o <<" ", "#">> \o S_foo

====
